---- MODULE Spec2Model ----
(***************************************************************************)
(* A model of rusty-png's decode pipeline: ChunkReader (src/png/chunk.rs)  *)
(* and PNG / LastPixel (src/png/mod.rs).                                   *)
(*                                                                         *)
(* Buffers are sequences of bytes (0..255).  Rust offsets are 0-based: the *)
(* byte at Rust offset k is b[k + 1].  A u32 that is only compared (a CRC) *)
(* is kept as its four big-endian bytes; a u32 that is used as a number    *)
(* (a length, a width) is converted by u32_from_be_bytes.  An out-of-range *)
(* index or slice aborts the Rust program with a panic: result "Panic".    *)
(***************************************************************************)
EXTENDS Integers, Sequences, FiniteSets, TLC

VARIABLES
    bytes,       \* ChunkReader.bytes: the file's contents
    position,    \* ChunkReader.position
    chunks,      \* the Vec<Chunk> filled by read_into_vec, later PNG.chunks
    metadata,    \* PNG.metadata
    data,        \* get_decoded_chunk_data: the buffer handed to the inflater
    unfiltered,  \* get_decoded_chunk_data: decoded_data, the inflater's output
    pixels,      \* filter_decoded_data: finalized_data as returned
    last_pixel,  \* a LastPixel value
    channel,     \* the channel index LastPixel::paeth is asked for
    predictor,   \* the value LastPixel::paeth returned
    inflated,    \* whether decompress_to_vec_zlib has been called
    flipped,     \* whether the file was corrupted by one bit and decoded again
    stage,       \* how far the decode has come
    result       \* "None" while no stage failed, else the DecodeError kind or "Panic"

vars == <<bytes, position, chunks, metadata, data, unfiltered, pixels,
          last_pixel, channel, predictor, inflated, flipped, stage, result>>

----------------------------------------------------------------------------
(* Bytes and words *)

Byte == 0..255

\* b[from..to) with Rust offsets
Slice(b, from, to) == SubSeq(b, from + 1, to)

\* Exclusive or of two bytes
RECURSIVE XorByte(_, _)
XorByte(x, y) ==
    IF x = 0 THEN y
    ELSE IF y = 0 THEN x
    ELSE ((x + y) % 2) + 2 * XorByte(x \div 2, y \div 2)

XorWord(u, v) ==
    <<XorByte(u[1], v[1]), XorByte(u[2], v[2]), XorByte(u[3], v[3]), XorByte(u[4], v[4])>>

\* A 32-bit word, as four big-endian bytes, shifted right by one bit
ShiftRightWord(u) ==
    << u[1] \div 2,
       (u[1] % 2) * 128 + u[2] \div 2,
       (u[2] % 2) * 128 + u[3] \div 2,
       (u[3] % 2) * 128 + u[4] \div 2 >>

\* The reflected CRC-32 polynomial 0xEDB88320
Crc32Poly == <<237, 184, 131, 32>>

RECURSIVE Crc32Bits(_, _)
Crc32Bits(crc, n) ==
    IF n = 0 THEN crc
    ELSE Crc32Bits(IF crc[4] % 2 = 1
                   THEN XorWord(ShiftRightWord(crc), Crc32Poly)
                   ELSE ShiftRightWord(crc), n - 1)

\* The byte-at-a-time table: entry n is n pushed through eight bit steps
Crc32Table == [n \in Byte |-> Crc32Bits(<<0, 0, 0, n>>, 8)]

\* Hasher::update: the running (inverted) checksum after the bytes of s
RECURSIVE HasherUpdate(_, _)
HasherUpdate(crc, s) ==
    IF s = <<>> THEN crc
    ELSE HasherUpdate(
            XorWord(<<0, crc[1], crc[2], crc[3]>>, Crc32Table[XorByte(crc[4], Head(s))]),
            Tail(s))

\* Hasher::new ... finalize: CRC-32 of s, as four big-endian bytes
Crc32(s) == XorWord(HasherUpdate(<<255, 255, 255, 255>>, s), <<255, 255, 255, 255>>)

\* u32::from_be_bytes, for a word used as a number
u32_from_be_bytes(arr) == ((arr[1] * 256 + arr[2]) * 256 + arr[3]) * 256 + arr[4]

\* u32::to_be_bytes, for the numbers the inputs are built from (below 2^16)
u32_to_be_bytes(n) == <<0, 0, n \div 256, n % 256>>

----------------------------------------------------------------------------
(* Chunk types *)

TagIHDR == <<73, 72, 68, 82>>
TagIDAT == <<73, 68, 65, 84>>
TagIEND == <<73, 69, 78, 68>>
TagPLTE == <<80, 76, 84, 69>>
TagAaaa == <<97, 97, 97, 97>>
TagTEXt == <<116, 69, 88, 116>>

\* ChunkType::from_bytes
from_bytes(tag) ==
    IF tag = TagIHDR THEN "IHDR"
    ELSE IF tag = TagIDAT THEN "IDAT"
    ELSE IF tag = TagIEND THEN "IEND"
    ELSE IF tag = TagPLTE THEN "PLTE"
    ELSE "Unknown"

\* ChunkType::to_bytes
to_bytes(chunk_type) ==
    IF chunk_type = "IHDR" THEN TagIHDR
    ELSE IF chunk_type = "IDAT" THEN TagIDAT
    ELSE IF chunk_type = "IEND" THEN TagIEND
    ELSE IF chunk_type = "PLTE" THEN TagPLTE
    ELSE TagAaaa

\* Chunk::crc_is_valid
crc_is_valid(chunk) ==
    Crc32(to_bytes(chunk.chunk_type) \o chunk.chunk_data) = chunk.crc

----------------------------------------------------------------------------
(* ChunkReader *)

Signature == <<137, 80, 78, 71, 13, 10, 26, 10>>

\* validate_file with the signature compared before the length is checked
validate_file_signature_first(b) ==
    IF Len(b) >= 8 /\ Signature # Slice(b, 0, 8) THEN "InvalidSignature"
    ELSE IF Len(b) < 57 THEN "InvalidStructure"
    ELSE IF <<0, 0, 0, 13>> # Slice(b, 8, 12) \/ TagIHDR # Slice(b, 12, 16)
         THEN "InvalidHeader"
    ELSE "Ok"

\* ChunkReader::validate_file: "Ok" or the error kind
validate_file(b) ==
    IF Len(b) < 57 THEN "InvalidStructure"
    ELSE IF Signature # Slice(b, 0, 8) THEN "InvalidSignature"
    ELSE IF <<0, 0, 0, 13>> # Slice(b, 8, 12) \/ TagIHDR # Slice(b, 12, 16)
         THEN "InvalidHeader"
    ELSE "Ok"

\* ChunkReader::read_into_vec: the loop, from cursor pos with chs read so far
RECURSIVE read_into_vec(_, _, _)
read_into_vec(b, pos, chs) ==
    IF ~(pos < Len(b)) THEN [result |-> "Ok", position |-> pos, chunks |-> chs]
    ELSE IF pos + 4 > Len(b)
         THEN [result |-> "Panic", position |-> pos, chunks |-> chs]
    ELSE LET length == u32_from_be_bytes(Slice(b, pos, pos + 4)) IN
    IF pos + 8 > Len(b)
         THEN [result |-> "Panic", position |-> pos + 4, chunks |-> chs]
    ELSE LET chunk_type == from_bytes(Slice(b, pos + 4, pos + 8)) IN
    IF pos + 8 + length > Len(b)
         THEN [result |-> "Panic", position |-> pos + 8, chunks |-> chs]
    ELSE LET chunk_data == Slice(b, pos + 8, pos + 8 + length) IN
    IF pos + 12 + length > Len(b)
         THEN [result |-> "Panic", position |-> pos + 8 + length, chunks |-> chs]
    ELSE LET chunk == [length |-> length, chunk_type |-> chunk_type,
                       chunk_data |-> chunk_data,
                       crc |-> Slice(b, pos + 8 + length, pos + 12 + length)]
             next == pos + 12 + length IN
    IF chunk.chunk_type = "PLTE"
         THEN [result |-> "UnsupportedFeature", position |-> next, chunks |-> chs]
    ELSE IF ~crc_is_valid(chunk)
         THEN [result |-> "FailedChecksum", position |-> next, chunks |-> chs]
    ELSE read_into_vec(b, next,
                       IF chunk.chunk_type # "IEND" THEN Append(chs, chunk) ELSE chs)

\* ChunkReader::read_metadata
read_metadata(b) ==
    [width |-> u32_from_be_bytes(Slice(b, 16, 20)),
     height |-> u32_from_be_bytes(Slice(b, 20, 24)),
     bit_depth |-> b[25],
     color_type |-> b[26],
     compression_method |-> b[27],
     filter_method |-> b[28],
     interlace_method |-> b[29]]

----------------------------------------------------------------------------
(* LastPixel *)

\* The value of x in Rust's i16
AsI16(x) == ((x + 32768) % 65536) - 32768

\* i16::abs
AbsI16(x) == IF x < 0 THEN AsI16(0 - x) ELSE x

\* get_pixel inside LastPixel::from_decoded; ok is FALSE when the slice of
\* decoded_bytes is out of range
get_pixel(decoded_bytes, x, y, width) ==
    IF x < 0 \/ y < 0 THEN [ok |-> TRUE, px |-> <<0, 0, 0, 0>>]
    ELSE LET byte_index == (x + (y * width)) * 4 IN
         IF byte_index + 4 > Len(decoded_bytes)
         THEN [ok |-> FALSE, px |-> <<0, 0, 0, 0>>]
         ELSE [ok |-> TRUE, px |-> Slice(decoded_bytes, byte_index, byte_index + 4)]

\* LastPixel::from_decoded
from_decoded(decoded_bytes, x, y, width) ==
    LET a == get_pixel(decoded_bytes, x - 1, y, width)
        b == get_pixel(decoded_bytes, x, y - 1, width)
        c == get_pixel(decoded_bytes, x - 1, y - 1, width)
        d == get_pixel(decoded_bytes, x + 1, y - 1, width)
    IN [ok |-> a.ok /\ b.ok /\ c.ok /\ d.ok,
        a |-> a.px, b |-> b.px, c |-> c.px, d |-> d.px]

\* paeth with ties going to the later candidate
paeth_strict(lp, i) ==
    LET a == AsI16(lp.a[i + 1])
        b == AsI16(lp.b[i + 1])
        c == AsI16(lp.c[i + 1])
        p == AsI16(AsI16(a + b) - c)
        p_a == AbsI16(AsI16(p - a))
        p_b == AbsI16(AsI16(p - b))
        p_c == AbsI16(AsI16(p - c))
    IN IF p_a < p_b /\ p_a < p_c THEN a % 256
       ELSE IF p_b < p_c THEN b % 256
       ELSE c % 256

\* LastPixel::paeth, channel i (0-based)
paeth(lp, i) ==
    LET a == AsI16(lp.a[i + 1])
        b == AsI16(lp.b[i + 1])
        c == AsI16(lp.c[i + 1])
        p == AsI16(AsI16(a + b) - c)
        p_a == AbsI16(AsI16(p - a))
        p_b == AbsI16(AsI16(p - b))
        p_c == AbsI16(AsI16(p - c))
    IN IF p_a <= p_b /\ p_a <= p_c THEN a % 256
       ELSE IF p_b <= p_c THEN b % 256
       ELSE c % 256

----------------------------------------------------------------------------
(* PNG *)

\* PNG::get_number_of_channels: err is "Ok" or the error kind
get_number_of_channels(md) ==
    LET depth_ok == md.bit_depth = 8 \/ md.bit_depth = 16 IN
    IF md.color_type = 0 THEN [err |-> "Ok", n |-> 1]
    ELSE IF md.color_type = 2
         THEN IF depth_ok THEN [err |-> "Ok", n |-> 3]
              ELSE [err |-> "InvalidStructure", n |-> 0]
    ELSE IF md.color_type = 3 THEN [err |-> "UnsupportedFeature", n |-> 0]
    ELSE IF md.color_type = 4
         THEN IF depth_ok THEN [err |-> "Ok", n |-> 2]
              ELSE [err |-> "InvalidStructure", n |-> 0]
    ELSE IF md.color_type = 6
         THEN IF depth_ok THEN [err |-> "Ok", n |-> 4]
              ELSE [err |-> "InvalidStructure", n |-> 0]
    ELSE [err |-> "InvalidStructure", n |-> 0]

\* The match on scanline[0] in filter_decoded_data: what is added to channel i
filter_predictor(filter, lp, i) ==
    IF filter = 0 THEN 0
    ELSE IF filter = 1 THEN lp.a[i + 1]
    ELSE IF filter = 2 THEN lp.b[i + 1]
    ELSE IF filter = 3 THEN ((lp.a[i + 1] + lp.b[i + 1]) \div 2) % 256
    ELSE paeth(lp, i)

\* u8::wrapping_add
wrapping_add(x, y) == (x + y) % 256

\* The body of "for x in 0..width" in filter_decoded_data, from column x on
RECURSIVE filter_scanline(_, _, _, _, _, _)
filter_scanline(md, scanline, bytes_per_pixel, y, x, finalized_data) ==
    IF x >= md.width THEN [result |-> "Ok", pixels |-> finalized_data]
    ELSE LET lp == from_decoded(finalized_data, x, y, md.width) IN
    IF ~lp.ok THEN [result |-> "Panic", pixels |-> finalized_data]
    ELSE LET pixel == Slice(scanline, x * bytes_per_pixel + 1,
                            x * bytes_per_pixel + 1 + bytes_per_pixel) IN
    IF Len(pixel) < 3 THEN [result |-> "Panic", pixels |-> finalized_data]
    ELSE LET bgra == <<pixel[3], pixel[2], pixel[1],
                       IF md.color_type = 6 THEN pixel[4] ELSE 255>> IN
    IF scanline[1] \notin 0..4
         THEN [result |-> "InvalidScanlineFilter", pixels |-> finalized_data]
    ELSE filter_scanline(md, scanline, bytes_per_pixel, y, x + 1,
            finalized_data \o
              << wrapping_add(bgra[1], filter_predictor(scanline[1], lp, 0)),
                 wrapping_add(bgra[2], filter_predictor(scanline[1], lp, 1)),
                 wrapping_add(bgra[3], filter_predictor(scanline[1], lp, 2)),
                 wrapping_add(bgra[4], filter_predictor(scanline[1], lp, 3)) >>)

\* The body of "for y in 0..height" in filter_decoded_data, from row y on
RECURSIVE filter_rows(_, _, _, _, _)
filter_rows(md, unf, bytes_per_pixel, y, finalized_data) ==
    LET scanline_width == 1 + md.width * bytes_per_pixel IN
    IF y >= md.height THEN [result |-> "Ok", pixels |-> finalized_data]
    ELSE IF (y + 1) * scanline_width > Len(unf)
         THEN [result |-> "Panic", pixels |-> finalized_data]
    ELSE LET row == filter_scanline(md,
                        Slice(unf, y * scanline_width, (y + 1) * scanline_width),
                        bytes_per_pixel, y, 0, finalized_data) IN
         IF row.result # "Ok" THEN row
         ELSE filter_rows(md, unf, bytes_per_pixel, y + 1, row.pixels)

\* PNG::filter_decoded_data
filter_decoded_data(md, unf) ==
    LET ch == get_number_of_channels(md) IN
    IF ch.err # "Ok" THEN [result |-> ch.err, pixels |-> <<>>]
    ELSE filter_rows(md, unf, ch.n, 0, <<>>)

\* The loop of get_decoded_chunk_data over the chunks from index k on:
\* data.append(&mut chunk.chunk_data) moves an IDAT chunk's bytes out of it
RECURSIVE append_idat(_, _, _)
append_idat(chs, k, acc) ==
    IF k > Len(chs) THEN [data |-> acc, chunks |-> chs]
    ELSE IF chs[k].chunk_type = "IDAT"
         THEN append_idat([chs EXCEPT ![k].chunk_data = <<>>], k + 1,
                          acc \o chs[k].chunk_data)
         ELSE append_idat(chs, k + 1, acc)

----------------------------------------------------------------------------
(* Input files *)

\* Bounds of the inputs
MaxExtra == 2       \* bytes a file may hold beyond the 57-byte floor
MaxPayload == 1     \* payload bytes of a chunk
MaxSlack == 1       \* by how much a declared length may exceed the payload
MaxChunks == 2      \* chunks after the header
MaxWidth == 2       \* image width
MaxHeight == 2      \* image height
MaxSeed == 1        \* the inflated streams tried per image are MaxSeed + 1 patterns
MaxSample == 4      \* paeth is tried on 0..MaxSample, 255 - MaxSample..255, 127, 128

Zeros(n) == [i \in 1..n |-> 0]

\* One chunk as it lies in a file
MkChunk(declared, tag, payload, crc) ==
    u32_to_be_bytes(declared) \o tag \o payload \o crc

\* The 13 bytes of a header chunk's payload
IhdrPayload(w, h, bd, ct, cm, fm, im) ==
    u32_to_be_bytes(w) \o u32_to_be_bytes(h) \o <<bd, ct, cm, fm, im>>

\* Signature, header chunk, and what follows it
MkFile(sig, hlen, htag, hpayload, body) ==
    sig \o MkChunk(hlen, htag, hpayload, Crc32(htag \o hpayload)) \o body

\* The smallest well-formed body: an empty IDAT and an IEND
PlainBody ==
    MkChunk(0, TagIDAT, <<>>, Crc32(TagIDAT)) \o MkChunk(0, TagIEND, <<>>, Crc32(TagIEND))

\* Signatures: the right one, and it with one byte changed
SigVariants ==
    {Signature} \cup {[Signature EXCEPT ![k] = (@ + 1) % 256] : k \in 1..8}

\* Files for ChunkReader::new: every prefix defect, cut to every interesting length
NewFiles(extra) ==
    { Slice(MkFile(sig, hlen, htag, IhdrPayload(1, 1, 8, 6, 0, 0, 0),
                   PlainBody \o Zeros(extra)), 0, n) :
        sig \in SigVariants, hlen \in {13, 12}, htag \in {TagIHDR, TagIDAT},
        n \in {0, 7, 8, 15, 16, 40, 56} \cup (57..57 + extra) }

ChunkTags == {TagIDAT, TagIEND, TagPLTE, TagTEXt, TagAaaa}

Payloads(maxlen) == UNION {[1..k -> {1, 254}] : k \in 0..maxlen}

\* The CRC fields tried: over the tag in the file, over the tag to_bytes gives
\* back, and a wrong one
CrcFields(tag, payload) ==
    {Crc32(tag \o payload), Crc32(to_bytes(from_bytes(tag)) \o payload), <<0, 0, 0, 0>>}

ReaderChunks(maxlen, slack) ==
    UNION { { MkChunk(Len(p) + s, tag, p, crc) : crc \in CrcFields(tag, p) } :
            tag \in ChunkTags, p \in Payloads(maxlen), s \in 0..slack }

RECURSIVE Concat(_)
Concat(ss) == IF ss = <<>> THEN <<>> ELSE Head(ss) \o Concat(Tail(ss))

\* Bodies: 2..n chunks, then nothing or a fragment too short for a chunk
ReaderBodies(n, maxlen, slack) ==
    { Concat(cs) \o tail :
        cs \in UNION {[1..k -> ReaderChunks(maxlen, slack)] : k \in 2..n},
        tail \in {<<>>, Zeros(5)} }

ReaderFiles(n, maxlen, slack) ==
    { MkFile(Signature, 13, TagIHDR, IhdrPayload(1, 1, 8, 6, 0, 0, 0), body) :
        body \in ReaderBodies(n, maxlen, slack) }

\* A chunk with the CRC of its tag and payload
GoodChunk(tag, payload) == MkChunk(Len(payload), tag, payload, Crc32(tag \o payload))

\* Bodies for the whole pipeline: one IDAT; two IDATs around a private chunk;
\* a palette before the IDAT
PipelineBodies ==
    { GoodChunk(TagIDAT, <<120, 1>>) \o GoodChunk(TagIEND, <<>>),
      GoodChunk(TagIDAT, <<120>>) \o GoodChunk(TagAaaa, <<7>>)
          \o GoodChunk(TagIDAT, <<1>>) \o GoodChunk(TagIEND, <<>>),
      GoodChunk(TagPLTE, <<>>) \o GoodChunk(TagIDAT, <<120, 1>>)
          \o GoodChunk(TagIEND, <<>>) }

\* compression, filter and interlace method: all zero, or one of them set
HeaderFlags == {<<0, 0, 0>>, <<1, 0, 0>>, <<0, 1, 0>>, <<0, 0, 1>>}

PipelineFiles(maxw, maxh) ==
    { MkFile(Signature, 13, TagIHDR,
             IhdrPayload(w, h, bd, ct, fl[1], fl[2], fl[3]), body) :
        w \in 0..maxw, h \in 0..maxh, bd \in {4, 8, 16}, ct \in {0, 2, 3, 4, 6, 7},
        fl \in HeaderFlags, body \in PipelineBodies }

\* The j-th data byte of the inflated stream of pattern k
DataByte(k, j) == (250 + 101 * k + 37 * j * j + 11 * j) % 256

\* What decompress_to_vec_zlib may hand back for an image: an error, or a
\* stream.  The streams tried hold md.height scanlines, each a filter byte in
\* 0..5 and the row's bytes, and one stream that is a byte short.
InflateOutcomes(md, seeds) ==
    LET ch == get_number_of_channels(md)
        rowlen == md.width * (IF ch.err = "Ok" THEN ch.n ELSE 0)
        Stream(f, k) ==
            Concat([y \in 1..md.height |->
                      <<f[y]>> \o [x \in 1..rowlen |-> DataByte(k, (y - 1) * rowlen + x)]])
        full == { Stream(f, k) : f \in [1..md.height -> 0..5], k \in 0..seeds }
        short == IF md.height = 0 THEN {}
                 ELSE { SubSeq(Stream([r \in 1..md.height |-> 0], 0), 1,
                               md.height * (rowlen + 1) - 1) }
    IN {[ok |-> FALSE, bytes |-> <<>>]}
         \cup {[ok |-> TRUE, bytes |-> st] : st \in full \cup short}

\* The bytes paeth is tried on
PaethSamples(m) == (0..m) \cup (255 - m..255) \cup {127, 128}

----------------------------------------------------------------------------
(* State *)

NoMetadata ==
    [width |-> 0, height |-> 0, bit_depth |-> 0, color_type |-> 0,
     compression_method |-> 0, filter_method |-> 0, interlace_method |-> 0]

\* LastPixel::new
NoPixel == [a |-> <<0, 0, 0, 0>>, b |-> <<0, 0, 0, 0>>, c |-> <<0, 0, 0, 0>>,
            d |-> <<0, 0, 0, 0>>]

\* A file has been read into memory and nothing else has happened
InitFile(files) ==
    /\ bytes \in files
    /\ position = 0
    /\ chunks = <<>>
    /\ metadata = NoMetadata
    /\ data = <<>>
    /\ unfiltered = <<>>
    /\ pixels = <<>>
    /\ last_pixel = NoPixel
    /\ channel = 0
    /\ predictor = 0
    /\ inflated = FALSE
    /\ flipped = FALSE
    /\ stage = "file"
    /\ result = "None"

----------------------------------------------------------------------------
(* Operations of the reader *)

\* ChunkReader::new
New ==
    /\ stage = "file"
    /\ LET v == validate_file(bytes) IN
         IF v = "Ok"
         THEN /\ position' = 33
              /\ stage' = "reader"
              /\ result' = result
         ELSE /\ position' = position
              /\ stage' = "failed"
              /\ result' = v
    /\ UNCHANGED <<bytes, chunks, metadata, data, unfiltered, pixels,
                   last_pixel, channel, predictor, inflated, flipped>>

\* reader.read_into_vec(&mut chunks)?
ReadIntoVec ==
    /\ stage = "reader"
    /\ LET r == read_into_vec(bytes, position, chunks) IN
         /\ position' = r.position
         /\ chunks' = r.chunks
         /\ stage' = IF r.result = "Ok" THEN "chunks" ELSE "failed"
         /\ result' = IF r.result = "Ok" THEN result ELSE r.result
    /\ UNCHANGED <<bytes, metadata, data, unfiltered, pixels,
                   last_pixel, channel, predictor, inflated, flipped>>

\* The offsets of the tag and payload bytes of the chunks from pos on
RECURSIVE TagAndPayloadOffsets(_, _)
TagAndPayloadOffsets(b, pos) ==
    IF pos + 12 > Len(b) THEN {}
    ELSE LET length == u32_from_be_bytes(Slice(b, pos, pos + 4)) IN
         IF pos + 12 + length > Len(b) THEN {}
         ELSE (pos + 4..pos + 7 + length)
                \cup TagAndPayloadOffsets(b, pos + 12 + length)

Pow2(k) == IF k = 0 THEN 1 ELSE IF k = 1 THEN 2 ELSE IF k = 2 THEN 4
           ELSE IF k = 3 THEN 8 ELSE IF k = 4 THEN 16 ELSE IF k = 5 THEN 32
           ELSE IF k = 6 THEN 64 ELSE 128

\* The environment: a file that parsed is stored again with one bit of a
\* chunk's tag or payload flipped (its CRC field untouched) and read anew.
Corrupt ==
    /\ stage = "chunks"
    /\ ~flipped
    /\ \E off \in TagAndPayloadOffsets(bytes, 33), k \in 0..7 :
         bytes' = [bytes EXCEPT ![off + 1] = XorByte(@, Pow2(k))]
    /\ flipped' = TRUE
    /\ position' = 0
    /\ chunks' = <<>>
    /\ stage' = "file"
    /\ UNCHANGED <<metadata, data, unfiltered, pixels, last_pixel, channel,
                   predictor, inflated, result>>

\* ChunkReader::new on every kind of prefix
InitNew == InitFile(NewFiles(MaxExtra))
NextNew == New
SpecNew == InitNew /\ [][NextNew]_vars

\* new, then read_into_vec, on every kind of chunk stream
InitReader == InitFile(ReaderFiles(MaxChunks, MaxPayload, MaxSlack))
NextReader == New \/ ReadIntoVec \/ Corrupt
SpecReader == InitReader /\ [][NextReader]_vars

\* let metadata = reader.read_metadata()?; Ok(Self {chunks, metadata, name})
ReadMetadata ==
    /\ stage = "chunks"
    /\ metadata' = read_metadata(bytes)
    /\ stage' = "png"
    /\ UNCHANGED <<bytes, position, chunks, data, unfiltered, pixels, last_pixel,
                   channel, predictor, inflated, flipped, result>>

\* PNG::get_decoded_chunk_data, reached through show and create_bitmap: on a
\* fresh PNG, and again on the same PNG after a call that returned Err.  An
\* empty buffer is no zlib stream, so the inflater can only fail on it.
GetDecodedChunkData ==
    /\ \/ stage = "png"
       \/ stage = "failed" /\ inflated /\ result # "Panic"
    /\ LET a == append_idat(chunks, 1, <<>>) IN
         /\ data' = a.data
         /\ chunks' = a.chunks
         /\ inflated' = TRUE
         /\ \E o \in InflateOutcomes(metadata, MaxSeed) :
              /\ a.data = <<>> => ~o.ok
              /\ IF ~o.ok
                 THEN /\ unfiltered' = <<>>
                      /\ pixels' = <<>>
                      /\ result' = "FailedDecoding"
                      /\ stage' = "failed"
                 ELSE LET f == filter_decoded_data(metadata, o.bytes) IN
                      /\ unfiltered' = o.bytes
                      /\ pixels' = IF f.result = "Ok" THEN f.pixels ELSE <<>>
                      /\ result' = IF f.result = "Ok" THEN result ELSE f.result
                      /\ stage' = IF f.result = "Ok" THEN "decoded" ELSE "failed"
    /\ UNCHANGED <<bytes, position, metadata, last_pixel, channel, predictor, flipped>>

\* from_file_path, then get_decoded_chunk_data, on every kind of header
Init == InitFile(PipelineFiles(MaxWidth, MaxHeight))
Next == New \/ ReadIntoVec \/ ReadMetadata \/ GetDecodedChunkData
Spec == Init /\ [][Next]_vars

\* A LastPixel whose channel ch holds the neighbours x, y, z
PixelWith(ch, x, y, z) ==
    [a |-> [j \in 1..4 |-> IF j = ch + 1 THEN x ELSE 255 - x],
     b |-> [j \in 1..4 |-> IF j = ch + 1 THEN y ELSE 255 - y],
     c |-> [j \in 1..4 |-> IF j = ch + 1 THEN z ELSE 255 - z],
     d |-> <<0, 0, 0, 0>>]

InitPaeth ==
    /\ bytes = <<>>
    /\ position = 0
    /\ chunks = <<>>
    /\ metadata = NoMetadata
    /\ data = <<>>
    /\ unfiltered = <<>>
    /\ pixels = <<>>
    /\ channel \in 0..3
    /\ last_pixel \in { PixelWith(channel, x, y, z) :
                          x \in PaethSamples(MaxSample), y \in PaethSamples(MaxSample),
                          z \in PaethSamples(MaxSample) }
    /\ predictor = 0
    /\ inflated = FALSE
    /\ flipped = FALSE
    /\ stage = "pixel"
    /\ result = "None"

\* last_pixel.paeth(i)
Paeth ==
    /\ stage = "pixel"
    /\ predictor' = paeth(last_pixel, channel)
    /\ stage' = "predicted"
    /\ UNCHANGED <<bytes, position, chunks, metadata, data, unfiltered, pixels,
                   last_pixel, channel, inflated, flipped, result>>

NextPaeth == Paeth
SpecPaeth == InitPaeth /\ [][NextPaeth]_vars

\* CRC-32 check value of the standard: crc32("123456789") = 0xCBF43926
Crc32CheckValue == Crc32(<<49, 50, 51, 52, 53, 54, 55, 56, 57>>) = <<203, 244, 57, 38>>

----------------------------------------------------------------------------
(* What the specification says of a file, read off its bytes *)

\* The first thing wrong with the chunks from pos on, in the order the parser
\* is specified to look: a chunk that does not fit the buffer, a palette
\* chunk, a CRC field that is not the CRC-32 of the tag and payload in the file
RECURSIVE FirstDefect(_, _)
FirstDefect(b, pos) ==
    IF pos >= Len(b) THEN "none"
    ELSE IF Len(b) - pos < 12 THEN "truncated"
    ELSE LET length == u32_from_be_bytes(SubSeq(b, pos + 1, pos + 4)) IN
         IF Len(b) - pos < 12 + length THEN "truncated"
         ELSE IF SubSeq(b, pos + 5, pos + 8) = <<80, 76, 84, 69>> THEN "plte"
         ELSE IF Crc32(SubSeq(b, pos + 5, pos + 8 + length))
                   # SubSeq(b, pos + 9 + length, pos + 12 + length) THEN "crc"
         ELSE FirstDefect(b, pos + 12 + length)

\* The payloads of the chunks of a well-formed file from pos on, IEND left out
RECURSIVE FilePayloads(_, _)
FilePayloads(b, pos) ==
    IF pos >= Len(b) THEN <<>>
    ELSE LET length == u32_from_be_bytes(SubSeq(b, pos + 1, pos + 4))
             rest == FilePayloads(b, pos + 12 + length) IN
         IF SubSeq(b, pos + 5, pos + 8) = <<73, 69, 78, 68>> THEN rest
         ELSE <<SubSeq(b, pos + 9, pos + 8 + length)>> \o rest

\* The bytes of the payloads of the IDAT chunks of a well-formed file from pos
\* on, in file order
RECURSIVE IdatPayloads(_, _)
IdatPayloads(b, pos) ==
    IF pos >= Len(b) THEN <<>>
    ELSE LET length == u32_from_be_bytes(SubSeq(b, pos + 1, pos + 4))
             rest == IdatPayloads(b, pos + 12 + length) IN
         IF SubSeq(b, pos + 5, pos + 8) = <<73, 68, 65, 84>>
         THEN SubSeq(b, pos + 9, pos + 8 + length) \o rest
         ELSE rest

\* The file passes the three checks of the prefix
GoodPrefix(b) ==
    /\ Len(b) >= 57
    /\ SubSeq(b, 1, 8) = <<137, 80, 78, 71, 13, 10, 26, 10>>
    /\ SubSeq(b, 9, 16) = <<0, 0, 0, 13, 73, 72, 68, 82>>

\* The PNG Paeth predictor, in unbounded integers
PaethReference(a, b, c) ==
    LET p == a + b - c
        Dist(v) == IF p - v < 0 THEN v - p ELSE p - v
    IN IF Dist(a) <= Dist(b) /\ Dist(a) <= Dist(c) THEN a
       ELSE IF Dist(b) <= Dist(c) THEN b
       ELSE c

\* Channels of a colour type: grayscale, truecolor, grayscale-alpha, truecolor-alpha
SourceChannels(ct) == IF ct = 0 THEN 1 ELSE IF ct = 2 THEN 3 ELSE IF ct = 4 THEN 2 ELSE 4

\* The supported subset
SupportedSubset(md) ==
    /\ md.bit_depth = 8
    /\ md.color_type \in {0, 2, 4, 6}
    /\ md.compression_method = 0
    /\ md.filter_method = 0
    /\ md.interlace_method = 0

\* The stream holds h scanlines of 1 + w * bpp bytes
HoldsScanlines(unf, w, h, bpp) == Len(unf) = h * (1 + w * bpp)

FilterByte(unf, w, bpp, y) == unf[y * (1 + w * bpp) + 1]

\* The reference reconstruction: the raw bytes of the image, row by row,
\* byte k from the bytes bpp to the left, above and above-left of it
RECURSIVE Reconstruct(_, _, _, _, _, _)
Reconstruct(unf, w, h, bpp, k, acc) ==
    IF k >= h * w * bpp THEN acc
    ELSE LET rowlen == w * bpp
             y == k \div rowlen
             t == k % rowlen
             a == IF t >= bpp THEN acc[k - bpp + 1] ELSE 0
             b == IF y >= 1 THEN acc[k - rowlen + 1] ELSE 0
             c == IF t >= bpp /\ y >= 1 THEN acc[k - rowlen - bpp + 1] ELSE 0
             f == FilterByte(unf, w, bpp, y)
             pred == IF f = 0 THEN 0
                     ELSE IF f = 1 THEN a
                     ELSE IF f = 2 THEN b
                     ELSE IF f = 3 THEN (a + b) \div 2
                     ELSE PaethReference(a, b, c)
         IN Reconstruct(unf, w, h, bpp, k + 1,
                        Append(acc, (unf[y * (rowlen + 1) + t + 2] + pred) % 256))

\* get_decoded_chunk_data has returned, and the inflater gave it a stream
Defiltered == stage \in {"decoded", "failed"} /\ inflated /\ result # "FailedDecoding"

\* ... of a supported image, holding its scanlines, every filter byte in 0..4
ValidImage ==
    /\ Defiltered
    /\ SupportedSubset(metadata)
    /\ HoldsScanlines(unfiltered, metadata.width, metadata.height,
                      SourceChannels(metadata.color_type))
    /\ \A y \in 0..metadata.height - 1 :
         FilterByte(unfiltered, metadata.width, SourceChannels(metadata.color_type), y)
             \in 0..4

\* read_into_vec has returned
ReadDone == stage \in {"chunks", "failed"} /\ position >= 33 /\ ~inflated

----------------------------------------------------------------------------
(* The claims *)

\* C1: every valid image of the supported subset, whose inflated stream holds
\* height scanlines of 1 + width * bytes_per_pixel bytes with filter bytes in
\* 0..4, decodes successfully to a buffer of exactly width * height * 4 bytes.
C1_DecodeSucceeds ==
    ValidImage =>
        /\ stage = "decoded"
        /\ result = "None"
        /\ Len(pixels) = metadata.width * metadata.height * 4

\* C2: ChunkReader::new checks in a fixed order with a distinct error each:
\* shorter than 57 bytes is InvalidStructure whatever the first bytes are;
\* otherwise a wrong signature is InvalidSignature; otherwise bytes 8..16 not
\* being length 13 and the tag IHDR is InvalidHeader; otherwise new succeeds
\* with the cursor at 33.
C2_ValidationOrder ==
    stage # "file" =>
        IF Len(bytes) < 57
        THEN stage = "failed" /\ result = "InvalidStructure"
        ELSE IF SubSeq(bytes, 1, 8) # <<137, 80, 78, 71, 13, 10, 26, 10>>
        THEN stage = "failed" /\ result = "InvalidSignature"
        ELSE IF SubSeq(bytes, 9, 16) # <<0, 0, 0, 13, 73, 72, 68, 82>>
        THEN stage = "failed" /\ result = "InvalidHeader"
        ELSE stage = "reader" /\ result = "None" /\ position = 33

\* C2's case: a 40-byte buffer with a wrong signature was refused as too short
C2_Witness ==
    /\ stage = "failed"
    /\ Len(bytes) = 40
    /\ SubSeq(bytes, 1, 8) # <<137, 80, 78, 71, 13, 10, 26, 10>>
    /\ result = "InvalidStructure"

\* C3: in a file that parses, flipping one bit of a chunk's type tag or
\* payload, its CRC field left alone, makes read_into_vec fail with
\* FailedChecksum.
C3_BitFlipFailsChecksum ==
    (flipped /\ ReadDone) => (stage = "failed" /\ result = "FailedChecksum")

\* C4: a file with a palette chunk, or with interlace method 1, bit depth 4 or
\* a non-zero compression or filter method in its header, fails with
\* UnsupportedFeature, before decompression or defiltering is attempted.
C4_UnsupportedGating ==
    ( /\ GoodPrefix(bytes)
      /\ FirstDefect(bytes, 33) \in {"none", "plte"}
      /\ \/ FirstDefect(bytes, 33) = "plte"
         \/ bytes[29] = 1
         \/ bytes[25] = 4
         \/ bytes[27] # 0
         \/ bytes[28] # 0 )
    => /\ ~inflated
       /\ stage \notin {"png", "decoded"}
       /\ stage = "failed" => result = "UnsupportedFeature"

\* C5: for every supported colour type (1, 2, 3 and 4 channels) and filter type
\* 0..4, every reconstructed source channel byte is the filtered byte plus the
\* predictor taken bytes_per_pixel bytes to the left, above and above-left,
\* mod 256: the output agrees with the reference reconstruction.
C5_SourceStride ==
    ValidImage =>
        /\ stage = "decoded"
        /\ Len(pixels) = metadata.width * metadata.height * 4
        /\ LET bpp == SourceChannels(metadata.color_type)
               raw == Reconstruct(unfiltered, metadata.width, metadata.height, bpp, 0, <<>>)
               \* where source channel ch of a pixel lies in the BGRA output
               Out(ch) == IF bpp >= 3 THEN (IF ch = 3 THEN 3 ELSE 2 - ch)
                          ELSE IF ch = 1 THEN 3 ELSE 0
           IN \A n \in 0..metadata.width * metadata.height - 1 :
                \A ch \in 0..bpp - 1 :
                  pixels[4 * n + Out(ch) + 1] = raw[n * bpp + ch + 1]

\* C6: for a source without alpha (grayscale, truecolor) every pixel of the
\* output has alpha 255 whatever the row's filter type, and its colour bytes
\* are the reconstructed source channels (for grayscale red = green = blue =
\* gray).
C6_OpaqueAlpha ==
    (ValidImage /\ metadata.color_type \in {0, 2} /\ stage = "decoded") =>
        /\ Len(pixels) = metadata.width * metadata.height * 4
        /\ LET bpp == SourceChannels(metadata.color_type)
               raw == Reconstruct(unfiltered, metadata.width, metadata.height, bpp, 0, <<>>)
           IN \A n \in 0..metadata.width * metadata.height - 1 :
                /\ pixels[4 * n + 4] = 255
                /\ \A k \in 0..2 :
                     pixels[4 * n + k + 1] =
                         IF bpp = 1 THEN raw[n + 1] ELSE raw[n * bpp + (2 - k) + 1]

\* C7: a chunk whose declared length runs past the end of the buffer, or a
\* trailing fragment too short for a chunk, makes read_into_vec return
\* InvalidStructure; the parser never aborts abnormally.
C7_OverrunIsInvalidStructure ==
    ReadDone =>
        /\ result # "Panic"
        /\ FirstDefect(bytes, 33) = "truncated" => result = "InvalidStructure"

\* C8: when the bytes after the header are well-formed chunks with correct
\* CRCs and no palette chunk, read_into_vec succeeds with the cursor at the end
\* of the buffer, and returns those chunks in file order with their payloads,
\* unknown types included and IEND left out.
C8_ChunksInOrder ==
    (ReadDone /\ FirstDefect(bytes, 33) = "none") =>
        /\ stage = "chunks"
        /\ result = "None"
        /\ position = Len(bytes)
        /\ [k \in 1..Len(chunks) |-> chunks[k].chunk_data] = FilePayloads(bytes, 33)

\* C9: if any of the height scanlines starts with a byte outside 0..4,
\* filter_decoded_data returns the invalid-scanline-filter error and no pixel
\* buffer, for every width and height (stated here for those of at least 1).
C9_BadFilterIsError ==
    ( /\ Defiltered
      /\ SupportedSubset(metadata)
      /\ metadata.width >= 1
      /\ metadata.height >= 1
      /\ HoldsScanlines(unfiltered, metadata.width, metadata.height,
                        SourceChannels(metadata.color_type))
      /\ \E y \in 0..metadata.height - 1 :
           FilterByte(unfiltered, metadata.width, SourceChannels(metadata.color_type), y)
               \notin 0..4 )
    => (stage = "failed" /\ result = "InvalidScanlineFilter" /\ pixels = <<>>)

\* C10: LastPixel::paeth returns the PNG Paeth predictor of a, b and c: with
\* p = a + b - c, a if |p-a| <= |p-b| and |p-a| <= |p-c|, else b if
\* |p-b| <= |p-c|, else c; the i16 arithmetic neither overflows nor truncates.
C10_PaethPredictor ==
    stage = "predicted" =>
        predictor = PaethReference(last_pixel.a[channel + 1], last_pixel.b[channel + 1],
                                   last_pixel.c[channel + 1])

\* C10's case: a tie between a and c, which goes to a
C10_Witness ==
    /\ stage = "predicted"
    /\ last_pixel.a[channel + 1] = 4
    /\ last_pixel.b[channel + 1] = 1
    /\ last_pixel.c[channel + 1] = 2
    /\ predictor = 4

\* C11: whenever get_decoded_chunk_data has run on a parsed PNG, the first
\* time or again, the buffer it handed the inflater is the concatenation, in
\* file order, of the payloads of the IDAT chunks and of no other chunk
\* (stated here for the images of the supported subset).
C11_AssemblesIdatPayloads ==
    (inflated /\ SupportedSubset(metadata)) => data = IdatPayloads(bytes, 33)

\* The first call alone: with every IDAT payload still in its chunk, the
\* buffer is the concatenation of the IDAT payloads.
FirstAssembly ==
    [][(~inflated /\ inflated') => data' = IdatPayloads(bytes, 33)]_vars

\* A later call finds the IDAT payloads moved out and assembles nothing.
LaterAssembly ==
    [][(inflated /\ inflated') => data' = <<>>]_vars

====
